---- MODULE Spec2Model ----
(***************************************************************************)
(* Model of src/main.py: the description loader (get_inst_files), the      *)
(* format loader (get_toml_files), the classification                      *)
(* (compare_yaml_and_toml_instructions), the merge                         *)
(* (add_descriptions_to_toml) and the report written by the main block.    *)
(* A parse or write that raises is an outcome of the step that attempts    *)
(* it, handled as the except clause of that step handles it.               *)
(*                                                                         *)
(* Instruction names are sequences of one-character strings so that        *)
(* str.strip('"') is computed character by character.  A Python dict is a  *)
(* function; its iteration order is kept in a separate key sequence where  *)
(* the program's result depends on it (the two loader mappings) and is a   *)
(* fixed order of the key universe elsewhere (instruction maps).           *)
(***************************************************************************)
EXTENDS Integers, Sequences, FiniteSets, TLC

\* ------------------------------------------------------------ bounds
\* Largest number of entries of one "instructions" map of an enumerated document.
MaxEntries == 2
\* Longest formats.names list of an enumerated document.
MaxNames == 2

\* ------------------------------------------------------------ characters and names
Quote == "\""

add == <<"a", "d", "d">>
sub == <<"s", "u", "b">>
mul == <<"m", "u", "l">>
readme == <<"R", "E", "A", "D", "M", "E">>

\* Raw instruction entry keys as they can stand in a format document.
Quoted(s) == <<Quote>> \o s \o <<Quote>>
RawUniverse == << add, Quoted(add), Quoted(Quoted(add)), <<Quote>> \o add, mul, sub >>
RawNames == { add, Quoted(add), Quoted(Quoted(add)), mul }

\* ------------------------------------------------------------ values
Str(s) == [t |-> "str", s |-> s]
Null == [t |-> "null", s |-> ""]
EmptyMap == [k \in {} |-> Null]

\* Python truthiness of a value: None and the empty string are falsy.
Truthy(v) == ~(v.t = "null" \/ (v.t = "str" /\ v.s = ""))

NoDescription == Str("No description available")

\* ------------------------------------------------------------ str.strip('"')
RECURSIVE lstrip(_)
lstrip(s) == IF s # <<>> /\ Head(s) = Quote THEN lstrip(Tail(s)) ELSE s

RECURSIVE rstrip(_)
rstrip(s) == IF s # <<>> /\ s[Len(s)] = Quote THEN rstrip(SubSeq(s, 1, Len(s) - 1)) ELSE s

\* A plausible bug: only one quote is removed, and only when both ends carry one.
strip_one_layer(s) ==
  IF Len(s) >= 2 /\ Head(s) = Quote /\ s[Len(s)] = Quote THEN SubSeq(s, 2, Len(s) - 1) ELSE s

strip(s) == rstrip(lstrip(s))

\* ------------------------------------------------------------ dict helpers
Elems(seq) == { seq[i] : i \in 1..Len(seq) }

\* dict.keys() of an instructions map, in the order of RawUniverse.
InstKeys(m) == SelectSeq(RawUniverse, LAMBDA r : r \in DOMAIN m)

\* d[k] = v on a dict without its key order.
Put(d, k, v) == [x \in DOMAIN d \cup {k} |-> IF x = k THEN v ELSE d[x]]

\* The key order after d[k] = v: a new key goes last, an old key keeps its place.
PutKey(keys, k) == IF \E i \in 1..Len(keys) : keys[i] = k THEN keys ELSE Append(keys, k)

\* ------------------------------------------------------------ the description tree
YamlFile(root, base, ext) == [root |-> root, base |-> base, ext |-> ext]
YamlTree ==
  { YamlFile("inst/I", add, ".yaml"), YamlFile("inst/B", add, ".yaml"),
    YamlFile("inst/I", sub, ".yaml"), YamlFile("inst", readme, ".md") }

\* What yaml.safe_load returns or raises for a file.
Parsed(v) == [ok |-> TRUE, val |-> v]
ParseError == [ok |-> FALSE, val |-> Null]

MapRecord(attrs) == [shape |-> "map", attrs |-> attrs]
OtherRecord == [shape |-> "other", attrs |-> EmptyMap]
WithDescription(v) == MapRecord([k \in {"description", "long_name"} |->
                                   IF k = "description" THEN v ELSE Str("long name")])
WithoutDescription == MapRecord([k \in {"long_name"} |-> Str("long name")])

YamlOutcomes(f) ==
  IF f.base = add /\ f.root = "inst/I"
    THEN { ParseError, Parsed(OtherRecord), Parsed(WithDescription(Str(""))),
           Parsed(WithDescription(Str("Add two registers"))) }
  ELSE IF f.base = add
    THEN { ParseError, Parsed(WithDescription(Str("Add (bitmanip)"))) }
  ELSE { ParseError, Parsed(WithoutDescription) }

\* ------------------------------------------------------------ the format directory
TomlFile(base, ext) == [base |-> base, ext |-> ext]
TomlDir == { TomlFile("rv32i", ".toml"), TomlFile("rv64", ".toml"), TomlFile("notes", ".txt") }

ListedKeys == {"R", "I", "X"}

\* Attribute maps an instruction entry can hold before the merge.
EntryChoices ==
  { [opcode |-> Str("0110011")],
    [opcode |-> Str("0110011"), description |-> Str("old text")] }

Formats(present, hasNames, names) == [present |-> present, hasNames |-> hasNames, names |-> names]
Section(hasInstr, m) == [hasInstr |-> hasInstr, instructions |-> m]
Document(formats, secs) == [formats |-> formats, secs |-> secs]

\* Instruction maps of at most MaxEntries entries.
InstrMaps ==
  UNION { [S -> EntryChoices] : S \in { T \in SUBSET RawNames : Cardinality(T) <= MaxEntries } }

\* formats.names lists of at most MaxNames section names.
NameLists == UNION { [1..n -> ListedKeys] : n \in 0..MaxNames }

FixedR == [r \in {add, Quoted(add)} |->
             IF r = add THEN [opcode |-> Str("0110011")]
             ELSE [opcode |-> Str("0110011"), description |-> Str("old text")]]
FixedI == [r \in {<<Quote>> \o add, mul} |-> [opcode |-> Str("0010011")]]

\* Documents that differ in their instruction maps.
DocsByEntries ==
  { Document(Formats(TRUE, TRUE, <<"R">>), [k \in {"R"} |-> Section(TRUE, m)]) : m \in InstrMaps }

\* Documents that differ in their structure: formats, names, sections present.
ShapeFormats ==
  { Formats(FALSE, FALSE, <<>>), Formats(TRUE, FALSE, <<>>) }
    \cup { Formats(TRUE, TRUE, n) : n \in NameLists }
ShapeSections ==
  { [k \in {"R"} |-> Section(TRUE, FixedR)],
    [k \in {"R", "I"} |-> IF k = "R" THEN Section(TRUE, FixedR) ELSE Section(TRUE, FixedI)],
    [k \in {"R", "I"} |-> IF k = "R" THEN Section(FALSE, EmptyMap) ELSE Section(TRUE, FixedI)] }
DocsByShape == { Document(f, secs) : f \in ShapeFormats, secs \in ShapeSections }

Rv64Doc ==
  Document(Formats(TRUE, TRUE, <<"R">>),
           [k \in {"R"} |-> Section(TRUE, [r \in {add, sub} |-> [opcode |-> Str("0111011")]])])

\* What tomli.load returns or raises for a file.
TomlOutcomes(f) ==
  IF f.base = "rv32i"
    THEN {ParseError} \cup { Parsed(d) : d \in DocsByEntries \cup DocsByShape }
    ELSE { ParseError, Parsed(Rv64Doc) }

\* ------------------------------------------------------------ traversal of a document
\* toml_content.get("formats", {}).get("names", [])
FormatNames(doc) ==
  IF doc.formats.present /\ doc.formats.hasNames THEN doc.formats.names ELSE <<>>

\* format_key in toml_content and "instructions" in toml_content[format_key]
HasInstructions(doc, format_key) ==
  format_key \in DOMAIN doc.secs /\ doc.secs[format_key].hasInstr

\* A plausible bug: the loop over the listed names ends at the first name that is
\* no key of the document (break instead of skip).
RECURSIVE UntilMissing(_, _)
UntilMissing(doc, names) ==
  IF names = <<>> \/ Head(names) \notin DOMAIN doc.secs THEN <<>>
  ELSE (IF HasInstructions(doc, Head(names)) THEN <<Head(names)>> ELSE <<>>)
         \o UntilMissing(doc, Tail(names))
SectionsToVisit_until_missing(doc) == UntilMissing(doc, FormatNames(doc))

\* The listed sections whose instructions are visited, in list order, once per listing.
SectionsToVisit(doc) == SelectSeq(FormatNames(doc), LAMBDA k : HasInstructions(doc, k))

RECURSIVE InstructionsOf(_, _)
InstructionsOf(doc, sections) ==
  IF sections = <<>> THEN <<>>
  ELSE InstKeys(doc.secs[Head(sections)].instructions) \o InstructionsOf(doc, Tail(sections))

\* The list toml_instructions built for one document.
toml_instructions(doc) == InstructionsOf(doc, SectionsToVisit(doc))

\* ------------------------------------------------------------ compare_yaml_and_toml_instructions
\* A plausible bug: the raw entry name, not the cleaned one, is looked up.
RECURSIVE ClassifyInstructions_raw_lookup(_, _, _, _)
ClassifyInstructions_raw_lookup(toml_file_name, insts, yaml_files, acc) ==
  IF insts = <<>> THEN acc
  ELSE LET pair == <<toml_file_name, strip(Head(insts))>>
           next == IF Head(insts) \in DOMAIN yaml_files
                     THEN [acc EXCEPT !.matches = Append(@, pair)]
                     ELSE [acc EXCEPT !.mismatches = Append(@, pair)]
       IN ClassifyInstructions_raw_lookup(toml_file_name, Tail(insts), yaml_files, next)

\* The loop over toml_instructions: one pair appended per instruction.
RECURSIVE ClassifyInstructions(_, _, _, _)
ClassifyInstructions(toml_file_name, insts, yaml_files, acc) ==
  IF insts = <<>> THEN acc
  ELSE LET clean_inst_name == strip(Head(insts))
           pair == <<toml_file_name, clean_inst_name>>
           next == IF clean_inst_name \in DOMAIN yaml_files
                     THEN [acc EXCEPT !.matches = Append(@, pair)]
                     ELSE [acc EXCEPT !.mismatches = Append(@, pair)]
       IN ClassifyInstructions(toml_file_name, Tail(insts), yaml_files, next)

\* The loop over toml_files.items().
RECURSIVE ClassifyFiles(_, _, _, _)
ClassifyFiles(keys, toml_files, yaml_files, acc) ==
  IF keys = <<>> THEN acc
  ELSE ClassifyFiles(Tail(keys), toml_files, yaml_files,
         ClassifyInstructions(Head(keys), toml_instructions(toml_files[Head(keys)]),
                              yaml_files, acc))

\* A plausible bug: the second pass collects the names without cleaning them.
AllTomlInstructions_unstripped(toml_files) ==
  UNION { Elems(toml_instructions(toml_files[f])) : f \in DOMAIN toml_files }

\* The set all_toml_instructions of the second pass.
AllTomlInstructions(toml_files) ==
  UNION { { strip(toml_instructions(toml_files[f])[i]) :
              i \in 1..Len(toml_instructions(toml_files[f])) } : f \in DOMAIN toml_files }

\* The list yaml_only, in the order of yaml_files.keys().
YamlOnly(yamlKeys, toml_files) ==
  SelectSeq(yamlKeys, LAMBDA y : y \notin AllTomlInstructions(toml_files))

\* ------------------------------------------------------------ add_descriptions_to_toml
\* A plausible bug: yaml_data.get("description") without the default text.
DescriptionOf_no_default(yaml_data) ==
  IF yaml_data.shape = "map" /\ "description" \in DOMAIN yaml_data.attrs
    THEN yaml_data.attrs["description"] ELSE Null

\* The description looked up for a matched entry; None when the record is no dict.
DescriptionOf(yaml_data) ==
  IF yaml_data.shape = "map"
    THEN IF "description" \in DOMAIN yaml_data.attrs
           THEN yaml_data.attrs["description"] ELSE NoDescription
    ELSE Null

\* A plausible bug: an entry that already has a description keeps it (setdefault).
MergeEntry_keep_existing(acc, inst_name, yaml_files) ==
  LET clean_inst_name == strip(inst_name) IN
  IF clean_inst_name \in DOMAIN yaml_files
       /\ Truthy(DescriptionOf(yaml_files[clean_inst_name]))
    THEN [instructions |->
            [acc.instructions EXCEPT ![inst_name] =
               IF "description" \in DOMAIN @ THEN @
               ELSE Put(@, "description", DescriptionOf(yaml_files[clean_inst_name]))],
          modified |-> TRUE]
    ELSE acc

\* A plausible bug: the description is stored under the cleaned name.
MergeEntry_under_clean_name(acc, inst_name, yaml_files) ==
  LET clean_inst_name == strip(inst_name) IN
  IF clean_inst_name \in DOMAIN yaml_files
       /\ Truthy(DescriptionOf(yaml_files[clean_inst_name]))
    THEN [instructions |->
            Put(acc.instructions, clean_inst_name,
                Put(IF clean_inst_name \in DOMAIN acc.instructions
                      THEN acc.instructions[clean_inst_name] ELSE EmptyMap,
                    "description", DescriptionOf(yaml_files[clean_inst_name]))),
          modified |-> TRUE]
    ELSE acc

\* A plausible bug: the document is marked modified only when the text changed.
MergeEntry_if_changed(acc, inst_name, yaml_files) ==
  LET clean_inst_name == strip(inst_name) IN
  IF clean_inst_name \in DOMAIN yaml_files
       /\ Truthy(DescriptionOf(yaml_files[clean_inst_name]))
    THEN LET new == Put(acc.instructions[inst_name], "description",
                        DescriptionOf(yaml_files[clean_inst_name]))
         IN [instructions |-> [acc.instructions EXCEPT ![inst_name] = new],
             modified |-> acc.modified \/ new # acc.instructions[inst_name]]
    ELSE acc

\* The body of the loop over list(instructions.items()) for one entry.
MergeEntry(acc, inst_name, yaml_files) ==
  LET clean_inst_name == strip(inst_name) IN
  IF clean_inst_name \in DOMAIN yaml_files
       /\ Truthy(DescriptionOf(yaml_files[clean_inst_name]))
    THEN [instructions |->
            [acc.instructions EXCEPT ![inst_name] =
               Put(@, "description", DescriptionOf(yaml_files[clean_inst_name]))],
          modified |-> TRUE]
    ELSE acc

RECURSIVE MergeInstructions(_, _, _)
MergeInstructions(acc, items, yaml_files) ==
  IF items = <<>> THEN acc
  ELSE MergeInstructions(MergeEntry(acc, Head(items), yaml_files), Tail(items), yaml_files)

\* The loop over the listed sections of one document; acc is [doc, modified].
RECURSIVE MergeSections(_, _, _)
MergeSections(acc, sections, yaml_files) ==
  IF sections = <<>> THEN acc
  ELSE LET format_key == Head(sections)
           instructions == acc.doc.secs[format_key].instructions
           r == MergeInstructions([instructions |-> instructions, modified |-> acc.modified],
                                  InstKeys(instructions), yaml_files)
       IN MergeSections(
            [doc |-> [acc.doc EXCEPT !.secs[format_key].instructions = r.instructions],
             modified |-> r.modified],
            Tail(sections), yaml_files)

\* One iteration of the loop over toml_files.items(), up to the test of modified.
MergeDocument(doc, yaml_files) ==
  MergeSections([doc |-> doc, modified |-> FALSE], SectionsToVisit(doc), yaml_files)

\* ------------------------------------------------------------ state
VARIABLES
  pc,             \* position in the main block
  yamlTodo,       \* files of the description tree os.walk has not yet yielded
  yaml_files,     \* get_inst_files: file_data, name -> record
  yamlKeys,       \* its key order
  yamlRead,       \* history: description files read, with what each parsed to
  tomlTodo,       \* entries of the format directory not yet visited
  toml_files,     \* get_toml_files: file_data, name -> document (mutated by the merge)
  tomlKeys,       \* its key order
  tomlRead,       \* history: format files read, with what each parsed to
  matches, mismatches, yaml_only,   \* the result of the classification
  mergeTodo,      \* document names the merge loop has not yet reached
  modifiedDocs,   \* history: documents whose flag modified was set
  modified_count, \* add_descriptions_to_toml: modified_count
  target,         \* files of the target directory written in this run
  report,         \* the results file instruction_comparison.txt
  rerun           \* a second call of add_descriptions_to_toml on the merged documents

vars == << pc, yamlTodo, yaml_files, yamlKeys, yamlRead, tomlTodo, toml_files, tomlKeys,
           tomlRead, matches, mismatches, yaml_only, mergeTodo, modifiedDocs,
           modified_count, target, report, rerun >>

loadVars == << yamlTodo, yaml_files, yamlKeys, yamlRead, tomlTodo, toml_files, tomlKeys, tomlRead >>
classVars == << matches, mismatches, yaml_only >>
mergeVars == << mergeTodo, modifiedDocs, modified_count, target >>

NoRerun == [ran |-> FALSE, toml_files |-> EmptyMap, modifiedDocs |-> {}, modified_count |-> 0,
            failed |-> {}]
NoReport == [written |-> FALSE, matches |-> <<>>, mismatches |-> <<>>, yaml_only |-> <<>>]

Init ==
  /\ pc = "get_inst_files"
  /\ yamlTodo = YamlTree
  /\ yaml_files = EmptyMap
  /\ yamlKeys = <<>>
  /\ yamlRead = {}
  /\ tomlTodo = TomlDir
  /\ toml_files = EmptyMap
  /\ tomlKeys = <<>>
  /\ tomlRead = {}
  /\ matches = <<>>
  /\ mismatches = <<>>
  /\ yaml_only = <<>>
  /\ mergeTodo = <<>>
  /\ modifiedDocs = {}
  /\ modified_count = 0
  /\ target = EmptyMap
  /\ report = NoReport
  /\ rerun = NoRerun

\* ------------------------------------------------------------ get_inst_files
\* One iteration of the walk: a .yaml file is parsed and registered under its base
\* name, or its parse error is logged; any other file is skipped.
ReadYamlFile ==
  /\ pc = "get_inst_files"
  /\ \E file \in yamlTodo :
       /\ yamlTodo' = yamlTodo \ {file}
       /\ IF file.ext = ".yaml"
            THEN \E content \in YamlOutcomes(file) :
                   /\ yamlRead' = yamlRead \cup {[file |-> file, content |-> content]}
                   /\ IF content.ok
                        THEN /\ yaml_files' = Put(yaml_files, file.base, content.val)
                             /\ yamlKeys' = PutKey(yamlKeys, file.base)
                        ELSE UNCHANGED << yaml_files, yamlKeys >>
            ELSE UNCHANGED << yaml_files, yamlKeys, yamlRead >>
  /\ UNCHANGED << pc, tomlTodo, toml_files, tomlKeys, tomlRead, classVars, mergeVars,
                  report, rerun >>

ReturnYamlFiles ==
  /\ pc = "get_inst_files"
  /\ yamlTodo = {}
  /\ pc' = "get_toml_files"
  /\ UNCHANGED << loadVars, classVars, mergeVars, report, rerun >>

\* ------------------------------------------------------------ get_toml_files
ReadTomlFile ==
  /\ pc = "get_toml_files"
  /\ \E file \in tomlTodo :
       /\ tomlTodo' = tomlTodo \ {file}
       /\ IF file.ext = ".toml"
            THEN \E content \in TomlOutcomes(file) :
                   /\ tomlRead' = tomlRead \cup {[file |-> file, content |-> content]}
                   /\ IF content.ok
                        THEN /\ toml_files' = Put(toml_files, file.base, content.val)
                             /\ tomlKeys' = PutKey(tomlKeys, file.base)
                        ELSE UNCHANGED << toml_files, tomlKeys >>
            ELSE UNCHANGED << toml_files, tomlKeys, tomlRead >>
  /\ UNCHANGED << pc, yamlTodo, yaml_files, yamlKeys, yamlRead, classVars, mergeVars,
                  report, rerun >>

ReturnTomlFiles ==
  /\ pc = "get_toml_files"
  /\ tomlTodo = {}
  /\ pc' = "compare"
  /\ UNCHANGED << loadVars, classVars, mergeVars, report, rerun >>

\* ------------------------------------------------------------ compare_yaml_and_toml_instructions
Compare ==
  /\ pc = "compare"
  /\ LET r == ClassifyFiles(tomlKeys, toml_files, yaml_files,
                            [matches |-> <<>>, mismatches |-> <<>>])
     IN /\ matches' = r.matches
        /\ mismatches' = r.mismatches
  /\ yaml_only' = YamlOnly(yamlKeys, toml_files)
  /\ mergeTodo' = tomlKeys
  /\ pc' = "add_descriptions"
  /\ UNCHANGED << loadVars, modifiedDocs, modified_count, target, report, rerun >>

\* ------------------------------------------------------------ add_descriptions_to_toml
\* What the with-block writing a modified document can do: succeed, fail in open()
\* (no file), or fail in tomli_w.dump after open() created the file.
WriteOutcomes == {"saved", "open_failed", "dump_failed"}

\* The target directory after one write attempt.
Written(files, toml_file_name, outcome) ==
  IF outcome = "open_failed" THEN files
  ELSE Put(files, toml_file_name, IF outcome = "saved" THEN "complete" ELSE "partial")

\* A plausible bug: the document is counted before the write is attempted.
Counted_before_write(count, outcome) == count + 1

\* modified_count after one write attempt.
Counted(count, outcome) == IF outcome = "saved" THEN count + 1 ELSE count

\* A plausible bug: the write is not guarded, and its exception ends the run.
MergeFile_uncaught ==
  /\ pc = "add_descriptions"
  /\ mergeTodo # <<>>
  /\ LET toml_file_name == Head(mergeTodo)
         r == MergeDocument(toml_files[toml_file_name], yaml_files)
     IN /\ toml_files' = [toml_files EXCEPT ![toml_file_name] = r.doc]
        /\ mergeTodo' = Tail(mergeTodo)
        /\ IF r.modified
             THEN /\ modifiedDocs' = modifiedDocs \cup {toml_file_name}
                  /\ \E outcome \in WriteOutcomes :
                       /\ target' = Written(target, toml_file_name, outcome)
                       /\ modified_count' = Counted(modified_count, outcome)
                       /\ pc' = IF outcome = "saved" THEN pc ELSE "raised"
             ELSE UNCHANGED << pc, modifiedDocs, target, modified_count >>
  /\ UNCHANGED << yamlTodo, yaml_files, yamlKeys, yamlRead, tomlTodo, tomlKeys,
                  tomlRead, classVars, report, rerun >>

\* One iteration of the loop over toml_files.items().
MergeFile ==
  /\ pc = "add_descriptions"
  /\ mergeTodo # <<>>
  /\ LET toml_file_name == Head(mergeTodo)
         r == MergeDocument(toml_files[toml_file_name], yaml_files)
     IN /\ toml_files' = [toml_files EXCEPT ![toml_file_name] = r.doc]
        /\ mergeTodo' = Tail(mergeTodo)
        /\ IF r.modified
             THEN /\ modifiedDocs' = modifiedDocs \cup {toml_file_name}
                  /\ \E outcome \in WriteOutcomes :
                       /\ target' = Written(target, toml_file_name, outcome)
                       /\ modified_count' = Counted(modified_count, outcome)
             ELSE UNCHANGED << modifiedDocs, target, modified_count >>
  /\ UNCHANGED << pc, yamlTodo, yaml_files, yamlKeys, yamlRead, tomlTodo, tomlKeys,
                  tomlRead, classVars, report, rerun >>

ReturnModifiedCount ==
  /\ pc = "add_descriptions"
  /\ mergeTodo = <<>>
  /\ pc' = "report"
  /\ UNCHANGED << loadVars, classVars, mergeVars, report, rerun >>

\* ------------------------------------------------------------ the results file
WriteReport ==
  /\ pc = "report"
  /\ report' = [written |-> TRUE, matches |-> matches, mismatches |-> mismatches,
                yaml_only |-> yaml_only]
  /\ pc' = "done"
  /\ UNCHANGED << loadVars, classVars, mergeVars, rerun >>

\* ------------------------------------------------------------ a second merge
\* add_descriptions_to_toml called again on the documents the first call left in
\* toml_files, with the same yaml_files; failed is the set of documents whose
\* write is attempted and fails in this call.
RECURSIVE MergeAllFiles(_, _, _, _)
MergeAllFiles(keys, files, descriptions, acc) ==
  IF keys = <<>> THEN acc
  ELSE LET toml_file_name == Head(keys)
           r == MergeDocument(files[toml_file_name], descriptions)
           saved == r.modified /\ toml_file_name \notin acc.failed
       IN MergeAllFiles(Tail(keys), files, descriptions,
            [acc EXCEPT !.toml_files = Put(@, toml_file_name, r.doc),
                        !.modifiedDocs = IF r.modified THEN @ \cup {toml_file_name} ELSE @,
                        !.modified_count = Counted(@, IF saved THEN "saved" ELSE "open_failed")])

MergeAgain ==
  /\ pc = "done"
  /\ ~rerun.ran
  /\ \E failed \in SUBSET { f \in DOMAIN toml_files :
                              MergeDocument(toml_files[f], yaml_files).modified } :
       rerun' = MergeAllFiles(tomlKeys, toml_files, yaml_files,
                              [NoRerun EXCEPT !.ran = TRUE, !.failed = failed])
  /\ UNCHANGED << pc, loadVars, classVars, mergeVars, report >>

Next ==
  \/ ReadYamlFile
  \/ ReturnYamlFiles
  \/ ReadTomlFile
  \/ ReturnTomlFiles
  \/ Compare
  \/ MergeFile
  \/ ReturnModifiedCount
  \/ WriteReport

Spec == Init /\ [][Next]_vars

\* The run followed by a second merge of its own output.
NextRerun == Next \/ MergeAgain
SpecRerun == Init /\ [][NextRerun]_vars

\* ------------------------------------------------------------ vocabulary of the properties
RawAll == Elems(RawUniverse)
Count(seq, x) == Cardinality({ i \in 1..Len(seq) : seq[i] = x })

\* The document as the format loader parsed it, before any merge.
Loaded(f) == (CHOOSE r \in tomlRead : r.file.base = f /\ r.content.ok).content.val

\* The listed names of a document, whatever the sections are.
Listed(doc) == IF doc.formats.present /\ doc.formats.hasNames THEN doc.formats.names ELSE <<>>

\* The occurrences the traversal reaches: <<i, raw>> for the i-th listed name, when
\* it is a section of the document with an instructions map holding the key raw.
Visits(doc) ==
  { v \in (1..Len(Listed(doc))) \X RawAll :
      /\ Listed(doc)[v[1]] \in DOMAIN doc.secs
      /\ doc.secs[Listed(doc)[v[1]]].hasInstr
      /\ v[2] \in DOMAIN doc.secs[Listed(doc)[v[1]]].instructions }

\* The listed positions that name no section of the document.
MissingAt(doc) == { i \in 1..Len(Listed(doc)) : Listed(doc)[i] \notin DOMAIN doc.secs }

\* compare_yaml_and_toml_instructions has just returned.
Classified == pc = "add_descriptions" /\ mergeTodo = tomlKeys
\* add_descriptions_to_toml has just returned.
Merged == pc = "report"

\* ------------------------------------------------------------ C1
\* C1: every (document, normalized name) occurrence the traversal reaches stands in
\* exactly one of matches and mismatches, once per occurrence: in matches when the
\* normalized name is a key of yaml_files, in mismatches otherwise; nothing else
\* stands in either list.
C1_ClassifyPartition ==
  Classified =>
    /\ \A p \in Elems(matches) \cup Elems(mismatches) :
         /\ p[1] \in DOMAIN toml_files
         /\ \E v \in Visits(Loaded(p[1])) : strip(v[2]) = p[2]
    /\ \A f \in DOMAIN toml_files : \A n \in { strip(r) : r \in RawAll } :
         LET occ == Cardinality({ v \in Visits(Loaded(f)) : strip(v[2]) = n })
         IN /\ Count(matches, <<f, n>>) = (IF n \in DOMAIN yaml_files THEN occ ELSE 0)
            /\ Count(mismatches, <<f, n>>) = (IF n \in DOMAIN yaml_files THEN 0 ELSE occ)
    /\ \A p \in Elems(matches) : p[2] \in DOMAIN yaml_files
    /\ \A p \in Elems(mismatches) : p[2] \notin DOMAIN yaml_files

\* A document with a matched and an unmatched entry, the matched name reached twice.
C1_Witness ==
  /\ Classified
  /\ \E f \in DOMAIN toml_files :
       /\ Count(matches, <<f, add>>) >= 2
       /\ Count(mismatches, <<f, mul>>) = 1

\* ------------------------------------------------------------ C2
\* The normalized names of all entries reached in all documents.
ReachedNames == { strip(v[2]) : v \in UNION { Visits(Loaded(f)) : f \in DOMAIN toml_files } }

\* C2: yaml_only holds exactly the keys of yaml_files that no document reaches, each
\* once; no matched name is in it; and the three lists together cover every
\* description name and every reached format name.
C2_DescriptionOnly ==
  Classified =>
    /\ Elems(yaml_only) = DOMAIN yaml_files \ ReachedNames
    /\ Len(yaml_only) = Cardinality(Elems(yaml_only))
    /\ \A p \in Elems(matches) : p[2] \notin Elems(yaml_only)
    /\ { p[2] : p \in Elems(matches) \cup Elems(mismatches) } \cup Elems(yaml_only)
         = DOMAIN yaml_files \cup ReachedNames

\* One description name is only a description while another is matched through a
\* quoted entry of one document and is absent from the other.
C2_Witness ==
  /\ Classified
  /\ yaml_only = <<sub>>
  /\ \E f \in DOMAIN toml_files :
       /\ <<f, add>> \in Elems(matches)
       /\ add \notin DOMAIN Loaded(f).secs["R"].instructions

\* ------------------------------------------------------------ vocabulary of the merge properties
\* An entry before and after the merge.
Before(f, k, raw) == Loaded(f).secs[k].instructions[raw]
After(f, k, raw) == toml_files[f].secs[k].instructions[raw]

\* The reached entries of a loaded document as <<section, raw name>>.
Reached(f) == { <<Listed(Loaded(f))[v[1]], v[2]>> : v \in Visits(Loaded(f)) }

NonEmptyText(v) == v.t = "str" /\ v.s # ""
IsMap(rec) == rec.shape = "map"
HasDescriptionAttr(rec) == IsMap(rec) /\ "description" \in DOMAIN rec.attrs
\* The record is a map whose description attribute is a non-empty text.
GivesDescription(rec) == HasDescriptionAttr(rec) /\ NonEmptyText(rec.attrs["description"])

\* ------------------------------------------------------------ C3
\* C3: after the merge, every reached entry whose normalized name is a key of
\* yaml_files with a map-shaped record holding a truthy description carries exactly
\* that description, whatever it held before, and its document is marked modified.
C3_MergeCopiesDescription ==
  Merged =>
    \A f \in DOMAIN toml_files : \A e \in Reached(f) :
      LET n == strip(e[2]) IN
      (n \in DOMAIN yaml_files /\ GivesDescription(yaml_files[n])) =>
        /\ "description" \in DOMAIN After(f, e[1], e[2])
        /\ After(f, e[1], e[2])["description"] = yaml_files[n].attrs["description"]
        /\ f \in modifiedDocs

\* An entry that held another description now holds the record's.
C3_Witness ==
  /\ Merged
  /\ \E f \in DOMAIN toml_files : \E e \in Reached(f) :
       /\ "description" \in DOMAIN Before(f, e[1], e[2])
       /\ Before(f, e[1], e[2])["description"] = Str("old text")
       /\ After(f, e[1], e[2])["description"] = Str("Add two registers")
       /\ f \in modifiedDocs

\* ------------------------------------------------------------ C4
\* The raw names that are add with quote characters added at the ends.
QuotedForms == { add, Quoted(add), Quoted(Quoted(add)), <<Quote>> \o add }

\* C4 as claimed: entries named add and "add" match the description name add, while
\* an entry named ""add"" normalizes to "add", is classified mismatched under that
\* name and receives no description.
C4_OneLayerStripped ==
  /\ Classified =>
       \A f \in DOMAIN toml_files : \A e \in Reached(f) :
         /\ (e[2] \in {add, Quoted(add)} /\ add \in DOMAIN yaml_files)
               => <<f, add>> \in Elems(matches)
         /\ e[2] = Quoted(Quoted(add)) => <<f, Quoted(add)>> \in Elems(mismatches)
  /\ Merged =>
       \A f \in DOMAIN toml_files : \A e \in Reached(f) :
         e[2] = Quoted(Quoted(add)) => After(f, e[1], e[2]) = Before(f, e[1], e[2])

\* C4 amended: every leading and every trailing quote character is stripped, each
\* end on its own: add, "add", ""add"" and "add all normalize to add, are matched
\* once each when add is a description name (mismatched as add otherwise), no
\* classified name keeps a quote at an end, and each such entry receives the
\* description the record of add gives.
C4_AllQuotesStripped ==
  /\ Classified =>
       /\ \A f \in DOMAIN toml_files :
            LET forms == Cardinality({ v \in Visits(Loaded(f)) : v[2] \in QuotedForms })
            IN /\ add \in DOMAIN yaml_files => Count(matches, <<f, add>>) = forms
               /\ add \notin DOMAIN yaml_files => Count(mismatches, <<f, add>>) = forms
       /\ \A p \in Elems(matches) \cup Elems(mismatches) :
            p[2] # <<>> => Head(p[2]) # Quote /\ p[2][Len(p[2])] # Quote
  /\ Merged =>
       \A f \in DOMAIN toml_files : \A e \in Reached(f) :
         (e[2] \in QuotedForms /\ add \in DOMAIN yaml_files
            /\ GivesDescription(yaml_files[add]))
           => /\ "description" \in DOMAIN After(f, e[1], e[2])
              /\ After(f, e[1], e[2])["description"] = yaml_files[add].attrs["description"]

\* A twice-quoted entry and an entry quoted at one end are matched and described.
C4_Witness ==
  /\ Merged
  /\ \E f \in DOMAIN toml_files :
       /\ <<f, add>> \in Elems(matches)
       /\ \E e \in Reached(f) :
            /\ e[2] = Quoted(Quoted(add))
            /\ "description" \in DOMAIN After(f, e[1], e[2])
            /\ After(f, e[1], e[2])["description"] = Str("Add two registers")

\* ------------------------------------------------------------ C5
\* C5 as claimed: a matched entry whose record has no description attribute, or a
\* falsy one, or is no map, is left unchanged, and a document with only such matched
\* entries is not marked modified.
C5_NothingToCopy ==
  Merged =>
    \A f \in DOMAIN toml_files :
      /\ \A e \in Reached(f) :
           (strip(e[2]) \in DOMAIN yaml_files /\ ~GivesDescription(yaml_files[strip(e[2])]))
             => After(f, e[1], e[2]) = Before(f, e[1], e[2])
      /\ (\A e \in Reached(f) :
            strip(e[2]) \in DOMAIN yaml_files => ~GivesDescription(yaml_files[strip(e[2])]))
           => f \notin modifiedDocs

\* C5 amended: a matched entry whose record is no map, or holds an empty or falsy
\* description, is left unchanged and does not mark its document; a matched entry
\* whose map-shaped record has no description attribute receives the text
\* "No description available" and marks its document modified.
C5_NothingToCopyUnlessDefault ==
  Merged =>
    \A f \in DOMAIN toml_files :
      /\ \A e \in Reached(f) :
           LET n == strip(e[2]) IN
           /\ (n \in DOMAIN yaml_files
                 /\ (~IsMap(yaml_files[n])
                       \/ (HasDescriptionAttr(yaml_files[n]) /\ ~GivesDescription(yaml_files[n]))))
                => After(f, e[1], e[2]) = Before(f, e[1], e[2])
           /\ (n \in DOMAIN yaml_files /\ IsMap(yaml_files[n])
                 /\ ~HasDescriptionAttr(yaml_files[n]))
                => /\ After(f, e[1], e[2])
                        = Put(Before(f, e[1], e[2]), "description", Str("No description available"))
                   /\ f \in modifiedDocs
      /\ f \in modifiedDocs =>
           \E e \in Reached(f) :
             /\ strip(e[2]) \in DOMAIN yaml_files
             /\ IsMap(yaml_files[strip(e[2])])
             /\ (HasDescriptionAttr(yaml_files[strip(e[2])])
                   => GivesDescription(yaml_files[strip(e[2])]))

\* One document holds only matched entries whose record has an empty description and
\* is not marked; another holds an entry that received the default text.
C5_Witness ==
  /\ Merged
  /\ add \in DOMAIN yaml_files /\ HasDescriptionAttr(yaml_files[add])
  /\ ~GivesDescription(yaml_files[add])
  /\ \E f \in DOMAIN toml_files :
       /\ f \notin modifiedDocs
       /\ \E e \in Reached(f) : strip(e[2]) = add
  /\ \E f \in modifiedDocs : \E e \in Reached(f) :
       /\ e[2] = sub
       /\ After(f, e[1], e[2])["description"] = Str("No description available")

\* ------------------------------------------------------------ C6
\* The documents whose file in the target directory was written completely.
Saved == { f \in DOMAIN target : target[f] = "complete" }

\* C6 as claimed: at the end of the run a document has a file in the target
\* directory exactly when it was marked modified, and modified_count is the number
\* of documents marked modified.
C6_WrittenIffModified ==
  pc = "done" =>
    /\ \A f \in DOMAIN toml_files : f \in Saved <=> f \in modifiedDocs
    /\ modified_count = Cardinality(modifiedDocs)

\* C6 amended: a document is written only if one of its entries received a
\* description in the run, and then completely unless its write fails;
\* modified_count is the number of documents written completely, at most the number
\* marked modified; a document with no merged entry has no file, not even a partial
\* one, and is not counted.
C6_WrittenOnlyIfModified ==
  /\ DOMAIN target \subseteq modifiedDocs
  /\ modified_count = Cardinality(Saved)
  /\ modified_count <= Cardinality(modifiedDocs)
  /\ \A f \in modifiedDocs :
       \E k \in DOMAIN toml_files[f].secs : \E raw \in DOMAIN toml_files[f].secs[k].instructions :
         /\ "description" \in DOMAIN toml_files[f].secs[k].instructions[raw]
         /\ strip(raw) \in DOMAIN yaml_files
  /\ Merged =>
       \A f \in DOMAIN toml_files \ modifiedDocs : toml_files[f] = Loaded(f)

\* Two documents were merged, the write of one failed and the other was saved, and
\* a third of the directory's files was not a document at all.
C6_Witness ==
  /\ pc = "done"
  /\ Cardinality(modifiedDocs) = 2
  /\ modified_count = 1
  /\ \E f \in modifiedDocs : f \in DOMAIN target /\ target[f] = "partial"

\* ------------------------------------------------------------ C8
\* The files a loader read without error, by base name.
ParsedNames(read) == { r.file.base : r \in { x \in read : x.content.ok } }

\* The positions of the main block before its end.  At each of them one of the two
\* steps of the position is enabled: the loop body while its list is not exhausted,
\* the return when it is (Running <=> ENABLED Next holds in every reachable state).
Running == pc \in {"get_inst_files", "get_toml_files", "compare", "add_descriptions", "report"}

\* C8: no parse failure and no write failure stops the run: every state is a
\* position of the main block and the end has the report with the three lists; each
\* loader's mapping has a key exactly for the base names of which a file parsed,
\* holding what such a file parsed to, and every file of the tree and of the
\* directory was visited; when the merge returns every loaded document has been
\* merged, whatever the writes before it did.
C8_BatchCompletes ==
  /\ pc # "done" => Running
  /\ pc = "done" =>
       /\ report.written
       /\ report.matches = matches /\ report.mismatches = mismatches
       /\ report.yaml_only = yaml_only
  /\ pc # "get_inst_files" =>
       /\ { r.file : r \in yamlRead } = { f \in YamlTree : f.ext = ".yaml" }
       /\ DOMAIN yaml_files = ParsedNames(yamlRead)
       /\ \A k \in DOMAIN yaml_files :
            \E r \in yamlRead : r.file.base = k /\ r.content.ok /\ r.content.val = yaml_files[k]
  /\ pc = "compare" =>
       /\ { r.file : r \in tomlRead } = { f \in TomlDir : f.ext = ".toml" }
       /\ DOMAIN toml_files = ParsedNames(tomlRead)
       /\ \A r \in tomlRead : r.content.ok => toml_files[r.file.base] = r.content.val
  /\ Merged =>
       /\ mergeTodo = <<>>
       /\ DOMAIN toml_files = ParsedNames(tomlRead)
       /\ \A f \in DOMAIN toml_files :
            (\E e \in Reached(f) : strip(e[2]) \in DOMAIN yaml_files
                                      /\ GivesDescription(yaml_files[strip(e[2])]))
              => f \in modifiedDocs

\* A description file and no format file failed to parse, the first write failed,
\* the second document was still merged and saved, and the report was written.
C8_Witness ==
  /\ pc = "done" /\ report.written
  /\ \E r \in yamlRead : ~r.content.ok
  /\ Len(tomlKeys) = 2
  /\ tomlKeys[1] \in modifiedDocs \ Saved
  /\ tomlKeys[2] \in Saved

\* The enabling condition of a step, written out, is the one TLC computes.
RunningIsEnabled == Running <=> ENABLED Next

\* ------------------------------------------------------------ C9
\* An attribute map without its description.
Rest(entry) == [a \in DOMAIN entry \ {"description"} |-> entry[a]]

\* C9: the merge changes nothing but the description of matched entries: the
\* formats table, the set of sections, the presence of each instructions map and its
\* set of (raw) entry names are as loaded; every entry keeps its other attributes; an
\* entry whose normalized name is no key of yaml_files is as loaded; a section that
\* is not listed is as loaded; and yaml_files still holds what the loader parsed.
C9_MergeFrame ==
  Merged =>
    /\ DOMAIN toml_files = ParsedNames(tomlRead)
    /\ \A f \in DOMAIN toml_files :
         /\ toml_files[f].formats = Loaded(f).formats
         /\ DOMAIN toml_files[f].secs = DOMAIN Loaded(f).secs
         /\ \A k \in DOMAIN Loaded(f).secs :
              /\ toml_files[f].secs[k].hasInstr = Loaded(f).secs[k].hasInstr
              /\ DOMAIN toml_files[f].secs[k].instructions = DOMAIN Loaded(f).secs[k].instructions
              /\ k \notin Elems(Listed(Loaded(f))) => toml_files[f].secs[k] = Loaded(f).secs[k]
              /\ \A raw \in DOMAIN Loaded(f).secs[k].instructions :
                   /\ Rest(After(f, k, raw)) = Rest(Before(f, k, raw))
                   /\ strip(raw) \notin DOMAIN yaml_files => After(f, k, raw) = Before(f, k, raw)
    /\ \A n \in DOMAIN yaml_files :
         \E r \in yamlRead : r.file.base = n /\ r.content.ok /\ r.content.val = yaml_files[n]

\* A document was modified through a quoted entry whose unquoted name is no entry of
\* the section, next to an unmatched entry and to an unlisted section that holds an
\* entry with a matching name.
C9_Witness ==
  /\ Merged
  /\ \E f \in modifiedDocs :
       /\ \E e \in Reached(f) :
            /\ e[2] # strip(e[2])
            /\ strip(e[2]) \notin DOMAIN Loaded(f).secs[e[1]].instructions
            /\ After(f, e[1], e[2]) # Before(f, e[1], e[2])
       /\ \E k \in DOMAIN Loaded(f).secs \ Elems(Listed(Loaded(f))) :
            \E raw \in DOMAIN Loaded(f).secs[k].instructions : strip(raw) \in DOMAIN yaml_files

\* ------------------------------------------------------------ C10
\* The pairs a document contributed to a list.
PairsOf(seq, f) == { i \in 1..Len(seq) : seq[i][1] = f }

\* C10: a document that lists a name which is no section of it contributes one pair
\* per entry of its listed sections that exist, those after the missing name
\* included, and nothing for the missing name; its reached names count for
\* yaml_only; and the merge describes the entries of the existing listed sections
\* and leaves a document whose listed names are all missing as loaded.
C10_MissingSectionSkipped ==
  /\ Classified =>
       \A f \in DOMAIN toml_files :
         MissingAt(Loaded(f)) # {} =>
           /\ Cardinality(PairsOf(matches, f)) + Cardinality(PairsOf(mismatches, f))
                = Cardinality(Visits(Loaded(f)))
           /\ \A v \in Visits(Loaded(f)) :
                /\ <<f, strip(v[2])>> \in Elems(matches) \cup Elems(mismatches)
                /\ strip(v[2]) \notin Elems(yaml_only)
  /\ Merged =>
       \A f \in DOMAIN toml_files :
         MissingAt(Loaded(f)) # {} =>
           /\ \A e \in Reached(f) :
                (strip(e[2]) \in DOMAIN yaml_files /\ GivesDescription(yaml_files[strip(e[2])]))
                  => /\ "description" \in DOMAIN After(f, e[1], e[2])
                     /\ After(f, e[1], e[2])["description"]
                          = yaml_files[strip(e[2])].attrs["description"]
           /\ Reached(f) = {} => toml_files[f] = Loaded(f) /\ f \notin modifiedDocs

\* A document lists a missing name before an existing section, and the entries of
\* that section were classified and described.
C10_Witness ==
  /\ Merged
  /\ \E f \in modifiedDocs :
       /\ Len(Listed(Loaded(f))) = 2
       /\ 1 \in MissingAt(Loaded(f))
       /\ <<f, add>> \in Elems(matches)
       /\ <<f, mul>> \in Elems(mismatches)

\* ------------------------------------------------------------ C7
\* The documents whose write failed in the first merge.
FirstFailed == modifiedDocs \ Saved

====
